---------------------------- MODULE Spec2Model ----------------------------
(***************************************************************************)
(* A model of tailspin (src/src/lib.rs): the oplog record decoder          *)
(* (Operation::new and its helpers), the composite-timestamp conversion    *)
(* (timestamp_to_datetime) and the tailing stream (Iterator for Oplog).    *)
(*                                                                         *)
(* Representation of values.                                               *)
(*  - An i64 is a tuple <<w3, w2, w1, w0>> of four 16-bit limbs, most      *)
(*    significant first, holding the two's complement bit pattern.         *)
(*  - A u32 is a tuple <<w1, w0>> of two 16-bit limbs.                     *)
(*  - A Bson value is [tag |-> <variant>, val |-> <payload>].              *)
(*  - A raw record (bson::Document) is a record with the keys op, h, ts,   *)
(*    ns, o and v; an absent key holds NoValue.                            *)
(*  - A Result is [tag |-> "Ok" | "Err" | "Panic", val |-> ...]; "Panic"   *)
(*    is the unwinding abort of a call that returns no value.              *)
(*                                                                         *)
(* The chrono release the crate is built against is not fixed by the       *)
(* source, and releases differ in the nanosecond values UTC.timestamp      *)
(* accepts.  The release is an input of the model: the operators that end  *)
(* in UTC.timestamp take it as their last parameter, and the variable      *)
(* chrono holds the one the build linked.                                  *)
(***************************************************************************)
EXTENDS Integers, Sequences, FiniteSets, TLC

VARIABLES
    chrono,      \* build: the leap-second rule of the chrono release linked
    record,      \* decoder: the raw record handed to Operation::new
    result,      \* decoder: what Operation::new produced for it
    seconds,     \* timestamp: the second count packed into the timestamp
    ordinal,     \* timestamp: the ordinal packed into the timestamp (a u32)
    datetime,    \* timestamp: what timestamp_to_datetime produced
    opened,      \* stream: what Oplog::new produced
    source,      \* stream: what the cursor's pulls will produce, in order
    tail,        \* stream: what every pull produces once source is used up
    pos,         \* stream: number of pulls of source consumed so far
    pc,          \* stream: "unopened", "failed", "idle" or "calling" (inside
                 \* next()'s loop)
    ret,         \* stream: value returned by the last completed next()
    delivered,   \* stream: documents returned by next(), in order
    spins        \* stream: pulls made by the pending next(), modulo SpinWrap

vars == <<chrono, record, result, seconds, ordinal, datetime,
          opened, source, tail, pos, pc, ret, delivered, spins>>

decoderVars == <<record, result>>
timestampVars == <<seconds, ordinal, datetime>>
streamVars == <<opened, source, tail, pos, pc, ret, delivered, spins>>

-----------------------------------------------------------------------------
(* Fixed-width integers                                                     *)

Limb == 2 ^ 16

\* lib.rs:95, the factor applied to the low 32 bits.
Million == 1000000

\* chrono's NaiveTime accepts no nanosecond value of this or more;
\* UTC.timestamp unwraps the Option.
NanoLimit == 2000000000

\* A nanosecond value of this or more, below NanoLimit, represents a leap
\* second.
LeapLimit == 1000000000

\* The two leap-second rules among chrono releases.  The releases before
\* 0.4, the ones that export `UTC`, accept a leap-second nanosecond value at
\* any second; current releases (0.4.44) accept it only at second 59 of a
\* minute.
LeapAnySecond == "leap second accepted at any second"
LeapLastSecond == "leap second accepted at second 59 only"
ChronoReleases == {LeapAnySecond, LeapLastSecond}

\* The limbs of a non-negative integer below 2^31 as a u32.
U32(n) == <<n \div Limb, n % Limb>>

\* timestamp >> 32 on an i64: arithmetic shift, the result as an integer.
ShiftRight32(t) ==
    IF t[1] >= Limb \div 2
    THEN (t[1] - Limb) * Limb + t[2]
    ELSE t[1] * Limb + t[2]

\* timestamp & 0xFFFFFFFF on an i64.
MaskLow32(t) == <<0, 0, t[3], t[4]>>

\* a * m on i64 for 0 <= a < 2^32 and 0 <= m < 2^20: schoolbook
\* multiplication on limbs (the product is below 2^52, so the i64
\* multiplication cannot overflow).
MulI64(a, m) ==
    LET m1 == m \div Limb
        m0 == m % Limb
        t0 == a[4] * m0
        t1 == a[3] * m0 + a[4] * m1 + t0 \div Limb
        t2 == a[3] * m1 + t1 \div Limb
    IN  <<t2 \div Limb, t2 % Limb, t1 % Limb, t0 % Limb>>

\* `x as u32` on an i64: the low 32 bits.
CastU32(x) == <<x[3], x[4]>>

\* n >= k for a u32 n and an integer 0 <= k < 2^31.
GeqU32(n, k) ==
    \/ n[1] > k \div Limb
    \/ n[1] = k \div Limb /\ n[2] >= k % Limb


-----------------------------------------------------------------------------
(* Results, errors and Bson values                                          *)

Ok(v) == [tag |-> "Ok", val |-> v]
Err(e) == [tag |-> "Err", val |-> e]

\* UTC.timestamp's `unwrap` of LocalResult::None: the thread unwinds and the
\* caller gets no value.
Panic == [tag |-> "Panic", val |-> "No such local time"]

\* bson::ValueAccessError
NotPresent == "NotPresent"
UnexpectedType == "UnexpectedType"

\* OplogError::MissingField(original), built by From<bson::ValueAccessError>.
MissingField(original) == [error |-> "MissingField", detail |-> original]

\* OplogError::UnknownOperation(op)
UnknownOperation(op) == [error |-> "UnknownOperation", detail |-> op]

\* The `try!` conversion of a failed field access into an OplogError.
FromValueAccessError(r) == Err(MissingField(r.val))

\* Option values: of Document::get, and of the cursor's and the stream's
\* next().
None == [tag |-> "None", val |-> "none"]
Some(v) == [tag |-> "Some", val |-> v]

\* A key the document does not hold.
NoValue == None
BsonString(s) == [tag |-> "String", val |-> s]
BsonI32(n) == [tag |-> "I32", val |-> n]
BsonI64(x) == [tag |-> "I64", val |-> x]
BsonTimeStamp(x) == [tag |-> "TimeStamp", val |-> x]
BsonDocument(d) == [tag |-> "Document", val |-> d]

\* bson's typed getters: Ok(value) when the key holds the wanted variant,
\* UnexpectedType when it holds another, NotPresent when it is absent.
Get(document, key, variant) ==
    LET b == document[key]
    IN  IF b.tag = variant THEN Ok(b.val)
        ELSE IF b.tag = "None" THEN Err(NotPresent)
        ELSE Err(UnexpectedType)

get_str(document, key) == Get(document, key, "String")
get_i64(document, key) == Get(document, key, "I64")
get_time_stamp(document, key) == Get(document, key, "TimeStamp")
get_document(document, key) == Get(document, key, "Document")

\* Kind
KindNoop == [kind |-> "Noop", namespace |-> ""]
KindInsert(ns) == [kind |-> "Insert", namespace |-> ns]
KindUpdate == [kind |-> "Update", namespace |-> ""]
KindDelete == [kind |-> "Delete", namespace |-> ""]
KindCommand == [kind |-> "Command", namespace |-> ""]
KindDatabase == [kind |-> "Database", namespace |-> ""]

-----------------------------------------------------------------------------
(* The decoder                                                              *)

\* Whether chrono's from_timestamp_opt accepts the nanosecond value at that
\* second count, under the given release's leap-second rule.
AcceptsNanos(secs, nanos, release) ==
    /\ ~GeqU32(nanos, NanoLimit)
    /\ GeqU32(nanos, LeapLimit) =>
           (release = LeapAnySecond \/ secs % 60 = 59)

\* UTC.timestamp(seconds, nanoseconds): `timestamp` unwraps chrono's
\* rejection of the nanosecond value.  Every 32-bit second count is inside
\* chrono's date range.
UTC_timestamp(secs, nanos, release) ==
    IF AcceptsNanos(secs, nanos, release)
    THEN Ok([secs |-> secs, nsecs |-> nanos[1] * Limb + nanos[2]])
    ELSE Panic

\* Mutant: the ordinal scaled by 1_000 instead of 1_000_000.
timestamp_to_datetime_Thousand(timestamp, release) ==
    LET secs == ShiftRight32(timestamp)
        nanoseconds == CastU32(MulI64(MaskLow32(timestamp), 1000))
    IN  UTC_timestamp(secs, nanoseconds, release)

timestamp_to_datetime(timestamp, release) ==
    LET secs == ShiftRight32(timestamp)
        nanoseconds == CastU32(MulI64(MaskLow32(timestamp), Million))
    IN  UTC_timestamp(secs, nanoseconds, release)

new_with_kind(document, kind, release) ==
    LET h == get_i64(document, "h")
        ts == get_time_stamp(document, "ts")
        o == get_document(document, "o")
    IN  IF h.tag = "Err" THEN FromValueAccessError(h)
        ELSE IF ts.tag = "Err" THEN FromValueAccessError(ts)
        ELSE IF o.tag = "Err" THEN FromValueAccessError(o)
        ELSE LET dt == timestamp_to_datetime(ts.val, release)
             IN  IF dt.tag = "Panic" THEN Panic
                 ELSE Ok([id |-> h.val,
                          timestamp |-> dt.val,
                          document |-> o.val,
                          kind |-> kind])

document_to_noop(document, release) ==
    new_with_kind(document, KindNoop, release)

\* Mutant: a missing or wrong-typed ns falls back to the empty namespace.
document_to_insert_OptionalNs(document, release) ==
    LET ns == get_str(document, "ns")
    IN  IF ns.tag = "Err" THEN new_with_kind(document, KindInsert(""), release)
        ELSE new_with_kind(document, KindInsert(ns.val), release)

document_to_insert(document, release) ==
    LET ns == get_str(document, "ns")
    IN  IF ns.tag = "Err" THEN FromValueAccessError(ns)
        ELSE new_with_kind(document, KindInsert(ns.val), release)

\* Mutant: h, ts and o are validated before the op code is dispatched.
OperationNew_PayloadFirst(document, release) ==
    LET op == get_str(document, "op")
        probe == new_with_kind(document, KindNoop, release)
    IN  IF op.tag = "Err" THEN FromValueAccessError(op)
        ELSE IF probe.tag = "Err" THEN probe
        ELSE IF op.val = "n" THEN document_to_noop(document, release)
        ELSE IF op.val = "i" THEN document_to_insert(document, release)
        ELSE Err(UnknownOperation(op.val))

\* Mutant: the op code "u" is decoded as an Update.
OperationNew_DecodesUpdate(document, release) ==
    LET op == get_str(document, "op")
    IN  IF op.tag = "Err" THEN FromValueAccessError(op)
        ELSE IF op.val = "n" THEN document_to_noop(document, release)
        ELSE IF op.val = "i" THEN document_to_insert(document, release)
        ELSE IF op.val = "u" THEN new_with_kind(document, KindUpdate, release)
        ELSE Err(UnknownOperation(op.val))

OperationNew(document, release) ==
    LET op == get_str(document, "op")
    IN  IF op.tag = "Err" THEN FromValueAccessError(op)
        ELSE IF op.val = "n" THEN document_to_noop(document, release)
        ELSE IF op.val = "i" THEN document_to_insert(document, release)
        ELSE Err(UnknownOperation(op.val))

-----------------------------------------------------------------------------
(* The timestamp conversion on its own                                      *)

\* T = (seconds << 32) | ordinal, for a signed 32-bit second count and a
\* u32 ordinal.
Compose(secs, ord) == <<(secs \div Limb) % Limb, secs % Limb, ord[1], ord[2]>>

\* Ordinals this close to the three thresholds are enumerated on both sides.
OrdinalSpan == 2

\* First ordinal whose product reaches LeapLimit, first ordinal whose
\* product reaches NanoLimit, and first ordinal whose product no longer fits
\* a u32.
FirstLeap == LeapLimit \div Million
FirstRejected == NanoLimit \div Million
FirstTruncated == (2 ^ 30) \div (Million \div 4) + 1

SecondsSet ==
    {-2147483647 - 1, -86400, -1, 0, 1, 59, 1479419535, 1479561394, 2147483647}

OrdinalSet ==
    {U32(n) : n \in {0, 1, 5000, 6442, 70000}}
    \cup {U32(n) : n \in (FirstLeap - OrdinalSpan)..(FirstLeap + OrdinalSpan)}
    \cup {U32(n) : n \in (FirstRejected - OrdinalSpan)..(FirstRejected + OrdinalSpan)}
    \cup {U32(n) : n \in (FirstTruncated - OrdinalSpan)..(FirstTruncated + OrdinalSpan)}
    \cup {<<1, 0>>, <<32768, 0>>, <<65535, 65535>>}

NotCalled == [tag |-> "NotCalled", val |-> "none"]

\* State of the components a specification does not exercise.
BuildIdle == chrono = LeapAnySecond

DecoderIdle ==
    /\ record = NoValue
    /\ result = NotCalled

TimestampIdle ==
    /\ seconds = 0
    /\ ordinal = <<0, 0>>
    /\ datetime = NotCalled

StreamIdle ==
    /\ opened = NotCalled
    /\ source = <<>>
    /\ tail = None
    /\ pos = 0
    /\ pc = "unopened"
    /\ ret = NotCalled
    /\ delivered = <<>>
    /\ spins = 0

TimestampInit ==
    /\ chrono \in ChronoReleases
    /\ seconds \in SecondsSet
    /\ ordinal \in OrdinalSet
    /\ datetime = NotCalled
    /\ DecoderIdle
    /\ StreamIdle

\* One call of timestamp_to_datetime on the composed timestamp.
Convert ==
    /\ datetime = NotCalled
    /\ datetime' = timestamp_to_datetime(Compose(seconds, ordinal), chrono)
    /\ UNCHANGED <<chrono, seconds, ordinal, decoderVars, streamVars>>

TimestampNext == Convert

TimestampSpec == TimestampInit /\ [][TimestampNext]_vars

-----------------------------------------------------------------------------
(* The decoder applied to one raw record                                    *)

\* -2135725856567446411 and -1742072865587022793 (the ids of the tests).
NoopId == <<57948, 24742, 9646, 13429>>
InsertId == <<59346, 59893, 27094, 46135>>

OpValues ==
    {NoValue, BsonI32(1)}
    \cup {BsonString(c) : c \in {"n", "i", "u", "d", "c", "db", "x"}}

HValues == {NoValue, BsonI32(5), BsonI64(NoopId), BsonI64(InsertId)}

RecordOrdinals ==
    {U32(n) : n \in {0, 1, FirstLeap - 1, FirstLeap, FirstRejected - 1,
                     FirstRejected, FirstTruncated}}

TsValues ==
    {NoValue, BsonI64(Compose(1479419535, <<0, 0>>))}
    \cup {BsonTimeStamp(Compose(s, n)) : s \in {1479419535, -1}, n \in RecordOrdinals}

NsValues == {NoValue, BsonI32(0), BsonString(""), BsonString("foo.bar")}

NoopPayload == << <<"msg", "initiating set">> >>
InsertPayload == << <<"_id", "583050b26813716e505a5bf2">>, <<"foo", "bar">> >>

OValues ==
    {NoValue, BsonString("o"), BsonDocument(NoopPayload), BsonDocument(InsertPayload)}

VValues == {NoValue, BsonI32(2)}

Records ==
    [op : OpValues, h : HValues, ts : TsValues, ns : NsValues,
     o : OValues, v : VValues]

Init ==
    /\ chrono \in ChronoReleases
    /\ record \in Records
    /\ result = NotCalled
    /\ TimestampIdle
    /\ StreamIdle

\* One call of Operation::new on the record; the record is borrowed
\* immutably.
Decode ==
    /\ result = NotCalled
    /\ result' = OperationNew(record, chrono)
    /\ UNCHANGED <<chrono, record, timestampVars, streamVars>>

Next == Decode

Spec == Init /\ [][Next]_vars

-----------------------------------------------------------------------------
(* The tailing stream                                                       *)

\* Longest scripted run of pulls; after it every pull produces `tail`.
MaxPulls == 6

\* Longest scripted run of pulls under the fair specification.
MaxFairPulls == 4

\* The pulls of one pending call are counted modulo this.
SpinWrap == 2

\* What one cursor.next() can produce: no document currently available, a
\* failed fetch, or a document.
Documents == {"A", "B"}
PullEmpty == None
PullError == Some(Err("fetch failed"))
PullDocument(d) == Some(Ok(d))
PullOutcomes == {PullEmpty, PullError} \cup {PullDocument(d) : d \in Documents}

SeqsUpTo(S, n) == UNION {[1..k -> S] : k \in 0..n}

\* OplogError::Database(original), built by From<mongodb::Error>.
Database(original) == [error |-> "Database", detail |-> original]

\* What coll.find can produce: an open tailing cursor, or a failure.
FindOutcomes == {Ok("cursor"), Err("find failed")}

\* Oplog::new on the outcome of coll.find: `try!` turns a failure into
\* Err(OplogError::Database), and no Oplog exists then.
OplogNewResult(found) ==
    IF found.tag = "Err" THEN Err(Database(found.val)) ELSE Ok("Oplog")

\* Before Oplog::new, with the cursor's future pulls scripted (at most n,
\* then `tail` for ever).
StreamInitUpTo(n) ==
    /\ opened = NotCalled
    /\ source \in SeqsUpTo(PullOutcomes, n)
    /\ tail \in {PullEmpty, PullError}
    /\ pos = 0
    /\ pc = "unopened"
    /\ ret = NotCalled
    /\ delivered = <<>>
    /\ spins = 0
    /\ BuildIdle
    /\ DecoderIdle
    /\ TimestampIdle

StreamInit == StreamInitUpTo(MaxPulls)

FairStreamInit == StreamInitUpTo(MaxFairPulls)

\* self.cursor.next(): the next scripted pull, or `tail` once the cursor has
\* nothing scripted left (idle, exhausted, closed or failing for good).
CursorNext == IF pos < Len(source) THEN source[pos + 1] ELSE tail

\* Mutant: `if let Some(r) = self.cursor.next() { return r.ok() }`, a failed
\* fetch ends the call with None.
LoopBody_SurfacesError(pull) ==
    IF pull.tag = "Some"
    THEN [returns |-> TRUE,
          value |-> IF pull.val.tag = "Ok" THEN Some(pull.val.val) ELSE None]
    ELSE [returns |-> FALSE, value |-> None]

\* Mutant: an empty pull ends the stream, next() returns None.
LoopBody_EndsOnEmpty(pull) ==
    IF pull.tag = "Some" /\ pull.val.tag = "Ok"
    THEN [returns |-> TRUE, value |-> Some(pull.val.val)]
    ELSE IF pull.tag = "None"
    THEN [returns |-> TRUE, value |-> None]
    ELSE [returns |-> FALSE, value |-> None]

\* The body of next()'s loop on one pull: `if let Some(Ok(op))` returns
\* Some(op); anything else falls through to the next iteration.
LoopBody(pull) ==
    IF pull.tag = "Some" /\ pull.val.tag = "Ok"
    THEN [returns |-> TRUE, value |-> Some(pull.val.val)]
    ELSE [returns |-> FALSE, value |-> None]

\* Oplog::new: the stream exists only when coll.find succeeded.
OplogNew ==
    /\ pc = "unopened"
    /\ \E found \in FindOutcomes :
           /\ opened' = OplogNewResult(found)
           /\ pc' = IF found.tag = "Ok" THEN "idle" ELSE "failed"
    /\ UNCHANGED <<chrono, source, tail, pos, ret, delivered, spins,
                   decoderVars, timestampVars>>

\* The caller invokes next().
Call ==
    /\ pc = "idle"
    /\ pc' = "calling"
    /\ spins' = 0
    /\ UNCHANGED <<chrono, opened, source, tail, pos, ret, delivered,
                   decoderVars, timestampVars>>

\* Mutant: a retry limit, the call gives up with None after SpinWrap pulls
\* without a document.
Pull_RetryLimit ==
    /\ pc = "calling"
    /\ LET step == LoopBody(CursorNext)
           giveUp == ~step.returns /\ spins + 1 = SpinWrap
       IN  /\ pos' = IF pos < Len(source) THEN pos + 1 ELSE pos
           /\ IF step.returns \/ giveUp
              THEN /\ pc' = "idle"
                   /\ ret' = step.value
                   /\ delivered' = Append(delivered, step.value)
                   /\ spins' = 0
              ELSE /\ pc' = "calling"
                   /\ spins' = (spins + 1) % SpinWrap
                   /\ UNCHANGED <<ret, delivered>>
    /\ UNCHANGED <<chrono, opened, source, tail, decoderVars, timestampVars>>

\* One iteration of the loop inside next(): one pull, then return or retry.
Pull ==
    /\ pc = "calling"
    /\ LET step == LoopBody(CursorNext)
       IN  /\ pos' = IF pos < Len(source) THEN pos + 1 ELSE pos
           /\ IF step.returns
              THEN /\ pc' = "idle"
                   /\ ret' = step.value
                   /\ delivered' = Append(delivered, step.value)
                   /\ spins' = 0
              ELSE /\ pc' = "calling"
                   /\ spins' = (spins + 1) % SpinWrap
                   /\ UNCHANGED <<ret, delivered>>
    /\ UNCHANGED <<chrono, opened, source, tail, decoderVars, timestampVars>>

StreamNext == OplogNew \/ Call \/ Pull

StreamSpec == StreamInit /\ [][StreamNext]_vars

\* The loop of next() runs on a thread that keeps executing: a pending call
\* keeps pulling.  Nothing obliges the caller to call next() again.
FairStreamSpec == FairStreamInit /\ [][StreamNext]_vars /\ WF_vars(Pull)

-----------------------------------------------------------------------------
(* Properties of the decoder, checked under Spec                            *)

Decoded == result.tag # "NotCalled"

Absent(key) == record[key].tag = "None"
Holds(key, variant) == record[key].tag = variant
OpIs(code) == Holds("op", "String") /\ record.op.val = code

\* h, ts and o are all present with the types new_with_kind reads.
PayloadWellTyped ==
    /\ Holds("h", "I64")
    /\ Holds("ts", "TimeStamp")
    /\ Holds("o", "Document")

SomePayloadFieldMissing == Absent("h") \/ Absent("ts") \/ Absent("o")

IsMissingField(r) == r.tag = "Err" /\ r.val.error = "MissingField"
IsUnknownOperation(r, code) == r = Err(UnknownOperation(code))

\* C1 as stated: a record missing h, ts or o fails with MissingField
\* whatever its op value is.
C1_AsStated ==
    (Decoded /\ SomePayloadFieldMissing) => IsMissingField(result)

\* C1 as amended: a record missing h, ts or o always fails to decode; the
\* failure is UnknownOperation(op) when op is a string other than "n" and
\* "i" (the op code is dispatched before h, ts and o are read), and
\* MissingField in every other case (op "n", op "i", op absent or not a
\* string).
C1_MissingPayloadFails ==
    (Decoded /\ SomePayloadFieldMissing) =>
        IF Holds("op", "String") /\ record.op.val \notin {"n", "i"}
        THEN IsUnknownOperation(result, record.op.val)
        ELSE IsMissingField(result)

C1_Witness ==
    /\ Decoded
    /\ Absent("h")
    /\ OpIs("u")
    /\ IsUnknownOperation(result, "u")

\* C2: a record whose op is a string other than "n" and "i" fails with
\* UnknownOperation carrying exactly that string ("u", "d", "c" and "db"
\* included), and no successful decode has a kind other than Noop or Insert.
C2_UnknownOperation ==
    Decoded =>
        /\ (Holds("op", "String") /\ record.op.val \notin {"n", "i"})
               => IsUnknownOperation(result, record.op.val)
        /\ result.tag = "Ok" => result.val.kind.kind \in {"Noop", "Insert"}

C2_Witness ==
    /\ Decoded
    /\ OpIs("db")
    /\ PayloadWellTyped
    /\ IsUnknownOperation(result, "db")

\* C3 as stated, on the records it is meant for (h, ts and o present and
\* well typed): a record with op = "n" decodes successfully to kind Noop,
\* id = h and document = o.
C3_AsStated ==
    (Decoded /\ OpIs("n") /\ PayloadWellTyped) =>
        /\ result.tag = "Ok"
        /\ result.val.kind = KindNoop
        /\ result.val.id = record.h.val
        /\ result.val.document = record.o.val

\* C4 as stated, on the records it is meant for (h, ts and o present and
\* well typed): a record with op = "i" and a string ns decodes successfully
\* to kind Insert{namespace = ns}, id = h and document = o.
C4_AsStated ==
    (Decoded /\ OpIs("i") /\ Holds("ns", "String") /\ PayloadWellTyped) =>
        /\ result.tag = "Ok"
        /\ result.val.kind = KindInsert(record.ns.val)
        /\ result.val.id = record.h.val
        /\ result.val.document = record.o.val

\* C8 as stated: Operation::new returns an Operation or an OplogError
\* (MissingField or UnknownOperation) for every record and never aborts in
\* another way.
C8_AsStated ==
    Decoded =>
        \/ result.tag = "Ok"
        \/ result.tag = "Err"
             /\ result.val.error \in {"MissingField", "UnknownOperation"}

\* C10: a required field of the wrong type is classified like a missing
\* one.  Decoding fails with MissingField when op is absent or not a string;
\* when op = "i" and ns is absent or not a string, even with h, ts and o
\* valid; and, for op "n" or "i", when h is not an I64, ts not a TimeStamp
\* or o not a Document.  For op = "n" the ns field is never the cause of an
\* error: with h, ts and o well typed no error is returned whatever ns is,
\* and the outcome is the one of the same record with a string ns.
C10_WrongTypeIsMissing ==
    Decoded =>
        /\ ~Holds("op", "String") => IsMissingField(result)
        /\ (OpIs("i") /\ ~Holds("ns", "String")) => IsMissingField(result)
        /\ ((OpIs("n") \/ OpIs("i")) /\ ~PayloadWellTyped)
               => IsMissingField(result)
        /\ (OpIs("n") /\ PayloadWellTyped) => result.tag # "Err"
        /\ OpIs("n") =>
               result = OperationNew([record EXCEPT !.ns = BsonString("")], chrono)

C10_Witness ==
    /\ Decoded
    /\ OpIs("i")
    /\ Holds("ns", "I32")
    /\ PayloadWellTyped
    /\ result = Err(MissingField(UnexpectedType))

-----------------------------------------------------------------------------
(* Properties of the timestamp conversion, checked under TimestampSpec      *)

Converted == datetime.tag # "NotCalled"

\* x + y on u32, wrapping.
AddU32(x, y) ==
    LET lo == x[2] + y[2]
        hi == x[1] + y[1] + lo \div Limb
    IN  <<hi % Limb, lo % Limb>>

\* (x * m) mod 2^32 for a u32 x, by doubling: the arithmetic the claims are
\* measured against, independent of the limb multiplication of the model.
RECURSIVE TimesMod32(_, _)
TimesMod32(x, m) ==
    IF m = 0 THEN <<0, 0>>
    ELSE LET half == TimesMod32(x, m \div 2)
             dbl == AddU32(half, half)
         IN  IF m % 2 = 1 THEN AddU32(dbl, x) ELSE dbl

\* nsecs = ord * 1_000_000 over the integers, for a nanosecond value nsecs
\* below 2^31: the product must itself be below 2^31.
IsExactProduct(nsecs, ord) ==
    /\ ord[1] = 0
    /\ ord[2] <= 2147
    /\ nsecs = ord[2] * Million

\* C5 as stated, on the conversions that yield a calendar time: for every
\* seconds and every u32 ordinal the calendar time has second count
\* = seconds and nanosecond part = ordinal * 1_000_000.
C5_AsStated ==
    (Converted /\ datetime.tag = "Ok") =>
        /\ datetime.val.secs = seconds
        /\ IsExactProduct(datetime.val.nsecs, ordinal)

\* C5 as amended: with n = (ordinal * 1_000_000) mod 2^32, the conversion
\* yields second count = seconds and nanosecond part = n when
\* n < 1_000_000_000; it yields no calendar time (it panics) when
\* n >= 2_000_000_000; in between it yields that same calendar time when
\* the chrono release accepts a leap second at any second or seconds mod 60
\* = 59, and panics otherwise.  Every ordinal up to 999 yields nanosecond
\* = ordinal * 1_000_000; an ordinal up to 1999 that yields a time yields
\* that nanosecond; no ordinal above 1999 does.
C5_TruncatedProduct ==
    Converted =>
        LET n == TimesMod32(ordinal, Million)
            yielded == Ok([secs |-> seconds, nsecs |-> n[1] * Limb + n[2]])
            below(k) == ordinal[1] = 0 /\ ordinal[2] < k
        IN  /\ GeqU32(n, NanoLimit) => datetime = Panic
            /\ ~GeqU32(n, LeapLimit) => datetime = yielded
            /\ (GeqU32(n, LeapLimit) /\ ~GeqU32(n, NanoLimit)) =>
                   datetime = IF chrono = LeapAnySecond \/ seconds % 60 = 59
                              THEN yielded ELSE Panic
            /\ below(FirstLeap) =>
                   /\ datetime.tag = "Ok"
                   /\ IsExactProduct(datetime.val.nsecs, ordinal)
            /\ (below(FirstRejected) /\ datetime.tag = "Ok") =>
                   IsExactProduct(datetime.val.nsecs, ordinal)
            /\ (~below(FirstRejected) /\ datetime.tag = "Ok") =>
                   ~IsExactProduct(datetime.val.nsecs, ordinal)

C5_Witness ==
    /\ Converted
    /\ seconds < 0
    /\ ordinal = U32(FirstTruncated)
    /\ datetime = Ok([secs |-> seconds, nsecs |-> 32704])

-----------------------------------------------------------------------------
(* Properties of the tailing stream, checked under StreamSpec and           *)
(* FairStreamSpec                                                           *)

IsDocumentPull(p) == p.tag = "Some" /\ p.val.tag = "Ok"

\* The documents among a sequence of pulls, in order, each as next() is to
\* return it.
RECURSIVE DocsOf(_)
DocsOf(s) ==
    IF s = <<>> THEN <<>>
    ELSE IF IsDocumentPull(Head(s))
         THEN <<Some(Head(s).val.val)>> \o DocsOf(Tail(s))
         ELSE DocsOf(Tail(s))

\* C6: the values returned by successive next() calls are exactly the
\* documents among the pulls made so far, in the same order, each once and
\* unaltered; empty pulls and errors never reach the caller.
C6_ExactlyTheDocuments ==
    /\ delivered = DocsOf(SubSeq(source, 1, pos))
    /\ ret = IF delivered = <<>> THEN NotCalled ELSE delivered[Len(delivered)]

C6_Witness ==
    /\ source = <<PullEmpty, PullEmpty, PullError, PullDocument("A"),
                  PullEmpty, PullDocument("B")>>
    /\ pos = 6
    /\ pc = "idle"
    /\ delivered = <<Some("A"), Some("B")>>

\* C7: a next() that returns, returns Some(document): never None and never
\* an error, also when the cursor is exhausted, closed or failing.
C7_OnlySomeDocument ==
    /\ ret # NotCalled => (ret.tag = "Some" /\ ret.val \in Documents)
    /\ \A i \in 1..Len(delivered) :
           delivered[i].tag = "Some" /\ delivered[i].val \in Documents

C7_Witness ==
    /\ ret = Some("B")
    /\ Len(delivered) = 2
    /\ pos = Len(source)
    /\ tail = PullError
    /\ pc = "calling"
    /\ spins = 1

\* Index in source of the next document the cursor will yield, 0 when it
\* will never yield one again.
NextDocIndex ==
    LET ahead == {i \in (pos + 1)..Len(source) : IsDocumentPull(source[i])}
    IN  IF ahead = {} THEN 0
        ELSE CHOOSE i \in ahead : \A j \in ahead : i <= j

\* C9: a pending next() returns the next document the cursor yields, after
\* any number of empty or failed pulls; when the cursor yields no further
\* document the pending next() never returns and never stops pulling.
C9_Liveness ==
    /\ \A i \in 1..MaxFairPulls :
           (pc = "calling" /\ NextDocIndex = i)
               ~> (pc = "idle" /\ pos = i /\ ret = Some(source[i].val.val))
    /\ [][(pc = "calling" /\ NextDocIndex = 0) => pc' = "calling"]_vars
    /\ \A k \in 0..(SpinWrap - 1) :
           (pc = "calling" /\ NextDocIndex = 0 /\ spins = k) ~> (spins # k)

C9_Witness ==
    /\ source = <<PullEmpty, PullError, PullDocument("A")>>
    /\ delivered = <<Some("A")>>
    /\ pc = "calling"
    /\ tail = PullError
    /\ spins = 1

=============================================================================
